---- MODULE Spec2Model ----
(***************************************************************************)
(* SecurityService (lib/services/lib/SecurityService.js): the verification *)
(* request collection, the one-time check collection and the handlers that *)
(* upsert requests, issue checks and confirm them.                         *)
(***************************************************************************)
EXTENDS Integers, Sequences, FiniteSets, Bags, TLC

\* Number of SecurityCheck documents that may be created in one behaviour.
MaxIssued == 3
\* Number of VerificationRequest documents the collection may hold.
MaxRequests == 2

\* Number of SecurityToken documents that may be created in one behaviour.
MaxTokens == 3
NULL == "null"
Undefined == [undefined |-> TRUE]

Users == {"u1", "u2"}
Emails == {"a@x.com", "b@x.com"}
Phones == {"+1000", "+2000"}

\* The SecurityUser documents the handlers receive: only _id and the level2
\* contact block are read (user._id, user.level2.email, user.level2.phone).
SecurityUser(u) ==
  IF u = "u1"
  THEN [_id |-> "u1", level2 |-> [email |-> "a@x.com", phone |-> "+2000"]]
  ELSE [_id |-> u, level2 |-> [email |-> NULL, phone |-> NULL]]

\* Request models handed to the handlers (instances of the level classes).
Level1Models ==
  { [kind |-> "Level1", userName |-> "ann", birthDate |-> "1990", avatar |-> "img1"],
    [kind |-> "Level1", userName |-> "bob", birthDate |-> "1991", avatar |-> "img2"] }
Level2Models ==
  { [kind |-> "Level2", email |-> e, phone |-> p] : e \in Emails, p \in Phones }
Level3Models ==
  { [kind |-> "Level3", passport |-> "P1", expirationDate |-> "2030", attachments |-> "f1"],
    [kind |-> "Level3", passport |-> "P2", expirationDate |-> "2031", attachments |-> "f2"] }
Level4Models ==
  { [kind |-> "Level4", country |-> "c1", state |-> "s1", city |-> "t1", zip |-> "z1",
     addressLine1 |-> "a1", addressLine2 |-> "b1", attachments |-> "g1"],
    [kind |-> "Level4", country |-> "c2", state |-> "s2", city |-> "t2", zip |-> "z2",
     addressLine1 |-> "a2", addressLine2 |-> "b2", attachments |-> "g2"] }
\* A model of another class, rejected by every handler's instanceof assert.
OtherModel == [kind |-> "Other"]
CheckTypes == {"confirm-email", "confirm-phone"}
SignatureTypes == {"ethereum-address", "public-key"}
\* Address values are strings, written as the sequence of their characters.
Addresses == { <<"0", "x", "a", "b">>, <<"0", "x", "A", "b">>, <<"0", "x", "c", "d">> }
Purposes == {"login", "reset"}
\* The callers whose handler calls may be in progress at the same time.
Procs == {"p1", "p2"}
\* A caller that has made no call yet.
Idle == [pc |-> "idle"]

\* Outcomes a review may write on a pending level-1 request.
ReviewComments == {NULL, "rejected"}

\* Confirmations carry, per channel, no code (0, falsy) or one of the codes
\* given: those the account was sent so far for that channel.
ConfirmationModels(emailCodes, phoneCodes) ==
  { [kind |-> "Confirmation", emailCode |-> ec, phoneCode |-> pc] :
      ec \in {0} \cup emailCodes, pc \in {0} \cup phoneCodes }

VARIABLES
  requests,   \* VerificationRequest collection: a bag of documents
  checks,     \* SecurityCheck collection
  nextCheck,  \* number of SecurityCheck documents created so far
  issued,     \* per (account, purpose): number of SecurityCheck documents created
  consumed,   \* history: every SecurityCheck removed by confirmLevel2Request
  accounts,   \* SecurityUser documents created by requireSignature
  signatures, \* SecuritySignature collection
  tokens,     \* SecurityToken collection
  nextToken,  \* number of SecurityToken documents created so far
  procs,      \* per caller: the handler call it has in progress, with its locals
  last        \* the last handler call: its arguments, outcome and storage calls

vars == <<requests, checks, nextCheck, issued, consumed,
          accounts, signatures, tokens, nextToken, procs, last>>

\* The storage state a handler works on, with the log of its storage calls.
Store ==
  [requests |-> requests, checks |-> checks, nextCheck |-> nextCheck,
   issued |-> issued, consumed |-> consumed,
   accounts |-> accounts, signatures |-> signatures,
   tokens |-> tokens, nextToken |-> nextToken, calls |-> <<>>]

Return(s, v) == [s |-> s, err |-> "", ret |-> v]
Throw(s, e) == [s |-> s, err |-> e, ret |-> Undefined]

\* Variant of findOneRequest: the filter names a status no document has.
findOneRequest_wrongStatus(reqs, userId, level) ==
  LET hits == { d \in BagToSet(reqs) :
                  /\ d.user = userId
                  /\ d.level = level
                  /\ d.status = "pending" }
  IN IF hits = {} THEN Undefined ELSE CHOOSE d \in hits : TRUE

\* VerificationRequest.model.findOne({user, level, status: 'created'}):
\* a matching document, Undefined (null) when there is none.
findOneRequest(reqs, userId, level) ==
  LET hits == { d \in BagToSet(reqs) :
                  /\ d.user = userId
                  /\ d.level = level
                  /\ d.status = "created" }
  IN IF hits = {} THEN Undefined ELSE CHOOSE d \in hits : TRUE

\* The _id of a new document: a value no stored document has.
newRequestId(reqs, userId, level) ==
  <<userId, level,
    1 + BagCardinality([d \in { e \in BagToSet(reqs) : e.user = userId /\ e.level = level }
                          |-> CopiesIn(d, reqs)])>>

\* VerificationRequest.model.create({user, level, levelN: data}); status
\* takes the collection's default, 'created'.
\* Variant of createRequest: the collection refuses a second 'created'
\* document of the same account and level.
createRequest_unique(s, userId, level, field, data) ==
  LET doc == [ [_id |-> newRequestId(s.requests, userId, level),
                user |-> userId, level |-> level, status |-> "created",
                level1 |-> Undefined, level2 |-> Undefined,
                level3 |-> Undefined, level4 |-> Undefined] EXCEPT ![field] = data ]
  IN [s EXCEPT !.requests = IF findOneRequest(@, userId, level) # Undefined
                            THEN @ ELSE @ (+) SetToBag({doc}),
               !.calls = Append(@, "VerificationRequest.create")]

createRequest(s, userId, level, field, data) ==
  LET doc == [ [_id |-> newRequestId(s.requests, userId, level),
                user |-> userId, level |-> level, status |-> "created",
                level1 |-> Undefined, level2 |-> Undefined,
                level3 |-> Undefined, level4 |-> Undefined] EXCEPT ![field] = data ]
  IN [s EXCEPT !.requests = @ (+) SetToBag({doc}),
               !.calls = Append(@, "VerificationRequest.create")]

\* request.levelN = data; request.save(): the path assigned is written to
\* the stored document that has the _id of request.
saveRequest(s, request, field, data) ==
  LET stored == CHOOSE d \in BagToSet(s.requests) : d._id = request._id
  IN [s EXCEPT !.requests = (@ (-) SetToBag({stored}))
                              (+) SetToBag({[stored EXCEPT ![field] = data]}),
               !.calls = Append(@, "VerificationRequest.save")]

\* Variant of upsertLevel1Request: a resubmission assigns the three payload
\* fields one by one and leaves the other fields of level1 as they were.
upsertLevel1Request_keepReview(s, user, requestModel) ==
  IF requestModel.kind # "Level1" THEN Throw(s, "AssertionError")
  ELSE
    LET request == findOneRequest(s.requests, user._id, "level-1") IN
    IF request # Undefined
    THEN Return(saveRequest(s, request, "level1",
                  [request.level1 EXCEPT !.userName = requestModel.userName,
                                         !.birthDate = requestModel.birthDate,
                                         !.avatar = requestModel.avatar]), Undefined)
    ELSE Return(createRequest(s, user._id, "level-1", "level1",
                  [userName |-> requestModel.userName,
                   birthDate |-> requestModel.birthDate,
                   avatar |-> requestModel.avatar]), Undefined)

upsertLevel1Request(s, user, requestModel) ==
  IF requestModel.kind # "Level1" THEN Throw(s, "AssertionError")
  ELSE
    LET request == findOneRequest(s.requests, user._id, "level-1") IN
    IF request # Undefined
    THEN Return(saveRequest(s, request, "level1",
                  [userName |-> requestModel.userName,
                   birthDate |-> requestModel.birthDate,
                   avatar |-> requestModel.avatar,
                   validationComment |-> NULL,
                   isValid |-> FALSE]), Undefined)
    ELSE Return(createRequest(s, user._id, "level-1", "level1",
                  [userName |-> requestModel.userName,
                   birthDate |-> requestModel.birthDate,
                   avatar |-> requestModel.avatar]), Undefined)

upsertLevel3Request(s, user, requestModel) ==
  IF requestModel.kind # "Level3" THEN Throw(s, "AssertionError")
  ELSE
    LET request == findOneRequest(s.requests, user._id, "level-3")
        data == [passport |-> requestModel.passport,
                 expirationDate |-> requestModel.expirationDate,
                 attachments |-> requestModel.attachments]
    IN IF request # Undefined
       THEN Return(saveRequest(s, request, "level3", data), Undefined)
       ELSE Return(createRequest(s, user._id, "level-3", "level3", data), Undefined)

\* Variant of level4Update: addressLine2 is left as the request had it.
level4Update_keepLine2(request, requestModel) ==
  [country |-> requestModel.country,
   state |-> requestModel.state,
   city |-> requestModel.city,
   zip |-> requestModel.zip,
   addressLine1 |-> requestModel.addressLine1,
   addressLine2 |-> request.level4.addressLine2,
   attachments |-> requestModel.attachments]

\* The level4 block assigned to a pending request on resubmission.
level4Update(request, requestModel) ==
  [country |-> requestModel.country,
   state |-> requestModel.state,
   city |-> requestModel.city,
   zip |-> requestModel.zip,
   addressLine1 |-> requestModel.addressLine1,
   addressLine2 |-> requestModel.addressLine2,
   attachments |-> requestModel.attachments]

upsertLevel4Request(s, user, requestModel) ==
  IF requestModel.kind # "Level4" THEN Throw(s, "AssertionError")
  ELSE
    LET request == findOneRequest(s.requests, user._id, "level-4") IN
    IF request # Undefined
    THEN Return(saveRequest(s, request, "level4", level4Update(request, requestModel)),
                Undefined)
    ELSE Return(createRequest(s, user._id, "level-4", "level4",
                  [country |-> requestModel.country,
                   state |-> requestModel.state,
                   city |-> requestModel.city,
                   zip |-> requestModel.zip,
                   addressLine1 |-> requestModel.addressLine1,
                   addressLine2 |-> requestModel.addressLine2,
                   attachments |-> requestModel.attachments]), Undefined)

\* Variant of removeChecks: the checks of every purpose are removed.
removeChecks_anyType(s, userId, type) ==
  [s EXCEPT !.checks = { c \in @ : ~(c.user = userId) },
            !.calls = Append(@, "SecurityCheck.remove:" \o type)]

\* SecurityCheck.model.remove({user, type}): removes every matching document.
removeChecks(s, userId, type) ==
  [s EXCEPT !.checks = { c \in @ : ~(c.user = userId /\ c.type = type) },
            !.calls = Append(@, "SecurityCheck.remove:" \o type)]

\* The code the SecurityCheck collection gives a new document: a value no
\* earlier document of that account and purpose carries (codes of different
\* accounts or purposes may coincide).
newCheckCode(s, userId, type) == s.issued[<<userId, type>>] + 1

\* SecurityCheck.model.create({user, type, payload}); the collection fills in
\* the code (check).
createCheck(s, userId, type, payload) ==
  LET doc == [user |-> userId, type |-> type, payload |-> payload,
              check |-> newCheckCode(s, userId, type)]
  IN [s EXCEPT !.checks = @ \cup {doc},
               !.nextCheck = @ + 1,
               !.issued[<<userId, type>>] = @ + 1,
               !.calls = Append(@, "SecurityCheck.create:" \o type)]

\* Variant of validatePhone: the earlier checks are not removed.
validatePhone_keepOld(s, user) ==
  LET request == findOneRequest(s.requests, user._id, "level-2") IN
  IF request = Undefined \/ request.level2 = Undefined \/ request.level2.isPhoneConfirmed
  THEN Throw(s, "Illegal state")
  ELSE Return(createCheck(s, user._id, "confirm-phone", request.level2.phone),
              Undefined)

validatePhone(s, user) ==
  LET request == findOneRequest(s.requests, user._id, "level-2") IN
  IF request = Undefined \/ request.level2 = Undefined \/ request.level2.isPhoneConfirmed
  THEN Throw(s, "Illegal state")
  ELSE Return(createCheck(removeChecks(s, user._id, "confirm-phone"),
                          user._id, "confirm-phone", request.level2.phone),
              Undefined)

\* Variant of validateEmail: a confirmed e-mail does not stop the trigger.
validateEmail_ignoreConfirmed(s, user, sendOk) ==
  LET request == findOneRequest(s.requests, user._id, "level-2") IN
  IF request = Undefined \/ request.level2 = Undefined
  THEN Throw(s, "Illegal state")
  ELSE
    LET s1 == createCheck(removeChecks(s, user._id, "confirm-email"),
                          user._id, "confirm-email", request.level2.email)
        s2 == [s1 EXCEPT !.calls = Append(@, "Message.send")]
    IN IF sendOk THEN Return(s2, Undefined) ELSE Throw(s2, "SendError")

\* Variant of validateEmail: the new check is withdrawn when the send fails.
validateEmail_rollback(s, user, sendOk) ==
  LET request == findOneRequest(s.requests, user._id, "level-2") IN
  IF request = Undefined \/ request.level2 = Undefined \/ request.level2.isEmailConfirmed
  THEN Throw(s, "Illegal state")
  ELSE
    LET s1 == createCheck(removeChecks(s, user._id, "confirm-email"),
                          user._id, "confirm-email", request.level2.email)
        s2 == [s1 EXCEPT !.calls = Append(@, "Message.send")]
    IN IF sendOk THEN Return(s2, Undefined)
       ELSE Throw(removeChecks(s2, user._id, "confirm-email"), "SendError")

\* Variant of validateEmail: the earlier checks are not removed.
validateEmail_keepOld(s, user, sendOk) ==
  LET request == findOneRequest(s.requests, user._id, "level-2") IN
  IF request = Undefined \/ request.level2 = Undefined \/ request.level2.isEmailConfirmed
  THEN Throw(s, "Illegal state")
  ELSE
    LET s1 == createCheck(s, user._id, "confirm-email", request.level2.email)
        s2 == [s1 EXCEPT !.calls = Append(@, "Message.send")]
    IN IF sendOk THEN Return(s2, Undefined) ELSE Throw(s2, "SendError")

\* sendOk: whether message.send() resolves (TRUE) or rejects (FALSE).
validateEmail(s, user, sendOk) ==
  LET request == findOneRequest(s.requests, user._id, "level-2") IN
  IF request = Undefined \/ request.level2 = Undefined \/ request.level2.isEmailConfirmed
  THEN Throw(s, "Illegal state")
  ELSE
    LET s1 == createCheck(removeChecks(s, user._id, "confirm-email"),
                          user._id, "confirm-email", request.level2.email)
        s2 == [s1 EXCEPT !.calls = Append(@, "Message.send")]
    IN IF sendOk THEN Return(s2, Undefined) ELSE Throw(s2, "SendError")

\* Variant of level2Update: the e-mail flag is carried over whatever the
\* new e-mail is.
level2Update_keepEmailFlag(request, requestModel) ==
  [email |-> requestModel.email,
   phone |-> requestModel.phone,
   isEmailConfirmed |-> request.level2.isEmailConfirmed,
   isPhoneConfirmed |->
     IF requestModel.phone = request.level2.phone
     THEN request.level2.isPhoneConfirmed ELSE FALSE,
   validationComment |-> NULL,
   isValid |-> FALSE]

\* Variant of level2Update: the phone flag is decided by comparing e-mails.
level2Update_phoneByEmail(request, requestModel) ==
  [email |-> requestModel.email,
   phone |-> requestModel.phone,
   isEmailConfirmed |->
     IF requestModel.email = request.level2.email
     THEN request.level2.isEmailConfirmed ELSE FALSE,
   isPhoneConfirmed |->
     IF requestModel.email = request.level2.email
     THEN request.level2.isPhoneConfirmed ELSE FALSE,
   validationComment |-> NULL,
   isValid |-> FALSE]

\* Variant of level2Update: both flags are reset on every resubmission.
level2Update_resetFlags(request, requestModel) ==
  [email |-> requestModel.email,
   phone |-> requestModel.phone,
   isEmailConfirmed |-> FALSE,
   isPhoneConfirmed |-> FALSE,
   validationComment |-> NULL,
   isValid |-> FALSE]

\* The level2 block assigned to a pending request on resubmission: a flag is
\* kept only when its contact value is the one the request already had.
level2Update(request, requestModel) ==
  [email |-> requestModel.email,
   phone |-> requestModel.phone,
   isEmailConfirmed |->
     IF requestModel.email = request.level2.email
     THEN request.level2.isEmailConfirmed ELSE FALSE,
   isPhoneConfirmed |->
     IF requestModel.phone = request.level2.phone
     THEN request.level2.isPhoneConfirmed ELSE FALSE,
   validationComment |-> NULL,
   isValid |-> FALSE]

\* Variant of level2Create: a new request starts with both flags false.
level2Create_unconfirmed(user, requestModel) ==
  [email |-> requestModel.email,
   phone |-> requestModel.phone,
   isEmailConfirmed |-> FALSE,
   isPhoneConfirmed |-> FALSE]

\* The level2 block of a new request: a flag starts true when the value is
\* the one on the account.
level2Create(user, requestModel) ==
  [email |-> requestModel.email,
   phone |-> requestModel.phone,
   isEmailConfirmed |-> (requestModel.email = user.level2.email),
   isPhoneConfirmed |-> (requestModel.phone = user.level2.phone)]

upsertLevel2Request(s, user, requestModel, sendOk) ==
  IF requestModel.kind # "Level2" THEN Throw(s, "AssertionError")
  ELSE
    LET found == findOneRequest(s.requests, user._id, "level-2")
        level2 == IF found # Undefined
                  THEN level2Update(found, requestModel)
                  ELSE level2Create(user, requestModel)
        s1 == IF found # Undefined
              THEN saveRequest(s, found, "level2", level2)
              ELSE createRequest(s, user._id, "level-2", "level2", level2)
        \* the saved or created document, as the handler holds it
        request == [level2 |-> level2]
        r2 == IF ~request.level2.isPhoneConfirmed
              THEN validatePhone(s1, user) ELSE Return(s1, Undefined)
    IN IF r2.err # "" THEN r2
       ELSE IF ~request.level2.isEmailConfirmed
            THEN validateEmail(r2.s, user, sendOk)
            ELSE Return(r2.s, Undefined)

\* SecurityCheck.model.findOne({user, type, payload, check})
findOneCheck(cs, userId, type, payload, code) ==
  { c \in cs : c.user = userId /\ c.type = type /\ c.payload = payload /\ c.check = code }

\* Variant of removeCheck: the document stays in the collection.
removeCheck_keep(s, c) ==
  [s EXCEPT !.consumed = @ \cup {c},
            !.calls = Append(@, "SecurityCheck.remove:" \o c.type \o ":one")]

\* check.remove() on a document returned by findOneCheck
removeCheck(s, c) ==
  [s EXCEPT !.checks = @ \ {c},
            !.consumed = @ \cup {c},
            !.calls = Append(@, "SecurityCheck.remove:" \o c.type \o ":one")]

\* Variant of shouldSave: the request is saved on every call.
shouldSave_always(isPhoneVerified, isEmailVerified) == TRUE

\* if (isPhoneVerified || isEmailVerified)
shouldSave(isPhoneVerified, isEmailVerified) == isPhoneVerified \/ isEmailVerified

confirmLevel2Request(s, user, requestModel) ==
  IF requestModel.kind # "Confirmation" THEN Throw(s, "AssertionError")
  ELSE
    LET request == findOneRequest(s.requests, user._id, "level-2") IN
    IF request = Undefined THEN Throw(s, "AssertionError")
    ELSE
      LET isEmailTried == requestModel.emailCode # 0
          checkEmail == IF isEmailTried
                        THEN findOneCheck(s.checks, user._id, "confirm-email",
                                          request.level2.email, requestModel.emailCode)
                        ELSE {}
          isEmailVerified == checkEmail # {}
          s1 == IF isEmailVerified
                THEN removeCheck(s, CHOOSE c \in checkEmail : TRUE) ELSE s
          isPhoneTried == requestModel.phoneCode # 0
          checkPhone == IF isPhoneTried
                        THEN findOneCheck(s1.checks, user._id, "confirm-phone",
                                          request.level2.phone, requestModel.phoneCode)
                        ELSE {}
          isPhoneVerified == checkPhone # {}
          s2 == IF isPhoneVerified
                THEN removeCheck(s1, CHOOSE c \in checkPhone : TRUE) ELSE s1
          level2 == [request.level2 EXCEPT
                       !.isEmailConfirmed = IF isEmailVerified THEN TRUE ELSE @,
                       !.isPhoneConfirmed = IF isPhoneVerified THEN TRUE ELSE @]
          s3 == IF shouldSave(isPhoneVerified, isEmailVerified)
                THEN saveRequest(s2, request, "level2", level2) ELSE s2
      IN Return(s3, [isEmailTried |-> isEmailTried,
                     isEmailVerified |-> isEmailVerified,
                     isPhoneTried |-> isPhoneTried,
                     isPhoneVerified |-> isPhoneVerified])

\* String.prototype.toLowerCase on one character, and on a string.
lowerChar(ch) ==
  CASE ch = "A" -> "a"
    [] ch = "B" -> "b"
    [] ch = "C" -> "c"
    [] ch = "D" -> "d"
    [] ch = "X" -> "x"
    [] OTHER -> ch

toLowerCase(str) == [i \in DOMAIN str |-> lowerChar(str[i])]

\* The document findOne returns among those that match: the one stored
\* first; Undefined (null) when none matches.
firstOf(docs) ==
  IF docs = {} THEN Undefined
  ELSE CHOOSE d \in docs : \A e \in docs : d._id <= e._id

\* .populate('user'): the user reference replaced by the document it names.
populateUser(doc, users) ==
  IF doc = Undefined THEN Undefined
  ELSE LET hits == { a \in users : a._id = doc.user }
       IN [doc EXCEPT !.user = IF hits = {} THEN NULL ELSE CHOOSE a \in hits : TRUE]

\* Variant of findOneSignature: the value is lower-cased in the filter.
findOneSignature_lowerValue(sigs, type, value) ==
  firstOf({ sg \in sigs : sg.value = toLowerCase(value) /\ sg.type = type })

findOneSignature(sigs, type, value) ==
  firstOf({ sg \in sigs : sg.value = value /\ sg.type = type })

selectPerson(s, address) ==
  LET s1 == [s EXCEPT !.calls = Append(@, "SecuritySignature.findOne")]
      signature == populateUser(findOneSignature(s.signatures, "ethereum-address",
                                                 toLowerCase(address)),
                                s.accounts)
  IN IF signature = Undefined
     THEN Throw(s1, "TypeError")
     ELSE Return(s1, [user |-> signature.user, address |-> signature.value])

createUser(s, name) ==
  LET doc == [_id |-> Cardinality(s.accounts) + 1, name |-> name]
  IN [s EXCEPT !.accounts = @ \cup {doc},
               !.calls = Append(@, "SecurityUser.create")]

createSignature(s, userId, type, value) ==
  LET doc == [_id |-> Cardinality(s.signatures) + 1,
              user |-> userId, type |-> type, value |-> value]
  IN [s EXCEPT !.signatures = @ \cup {doc},
               !.calls = Append(@, "SecuritySignature.create")]

\* The document of the collection that has the largest _id: the one the
\* last create returned.
newest(docs) == CHOOSE d \in docs : \A e \in docs : e._id <= d._id

requireSignature(s, type, value) ==
  LET s0 == [s EXCEPT !.calls = Append(@, "SecuritySignature.findOne")]
      signature == populateUser(findOneSignature(s.signatures, type, value), s.accounts)
  IN IF signature # Undefined
     THEN Return(s0, signature)
     ELSE
       LET s1 == createUser(s0, <<type, ":", value>>)
           u == newest(s1.accounts)
           s2 == createSignature(s1, u._id, type, value)
           sg == newest(s2.signatures)
           s3 == [s2 EXCEPT !.calls = Append(@, "SecuritySignature.findOne")]
       IN Return(s3, populateUser(firstOf({ x \in s3.signatures : x._id = sg._id }),
                                  s3.accounts))

\* The token string of a document is written as the document's _id: each
\* is generated once per document.
findToken(s, token) ==
  Return([s EXCEPT !.calls = Append(@, "SecurityToken.findOne")],
         firstOf({ tk \in s.tokens : tk._id = token }))

\* Variant of findOneToken: the filter compares the user reference with
\* the purpose, which no document matches.
findOneToken_noMatch(toks, userId, purpose) ==
  firstOf({ tk \in toks : tk.user = purpose /\ tk.purpose = purpose })

findOneToken(toks, userId, purpose) ==
  firstOf({ tk \in toks : tk.user = userId /\ tk.purpose = purpose })

createToken(s, userId, purpose) ==
  LET doc == [_id |-> s.nextToken + 1, user |-> userId, purpose |-> purpose]
  IN [s EXCEPT !.tokens = @ \cup {doc},
               !.nextToken = @ + 1,
               !.calls = Append(@, "SecurityToken.create")]

upsertToken(s, user, purpose) ==
  LET s0 == [s EXCEPT !.calls = Append(@, "SecurityToken.findOne")]
      found == findOneToken(s.tokens, user._id, purpose)
      s1 == IF found # Undefined
            THEN [s0 EXCEPT !.calls = Append(@, "SecurityToken.save")]
            ELSE createToken(s0, user._id, purpose)
      token == IF found # Undefined THEN found ELSE newest(s1.tokens)
      s2 == [s1 EXCEPT !.calls = Append(@, "SecurityToken.findOne")]
  IN Return(s2, firstOf({ tk \in s2.tokens : tk._id = token._id }))

removeToken(s, token) ==
  LET s0 == [s EXCEPT !.calls = Append(@, "SecurityToken.findOne")]
      result == firstOf({ tk \in s.tokens : tk._id = token })
  IN IF result = Undefined
     THEN Throw(s0, "TypeError")
     ELSE Return([s0 EXCEPT !.tokens = @ \ {result},
                            !.calls = Append(@, "SecurityToken.remove")],
                 result)

\* The review of a pending level-1 request, made outside SecurityService
\* while the request is still 'created': it writes validationComment and
\* isValid and leaves the rest of the document as it is.
reviewRequestLevel1(s, user, comment, valid) ==
  LET request == findOneRequest(s.requests, user._id, "level-1") IN
  IF request = Undefined THEN Throw(s, "NotFound")
  ELSE Return(saveRequest(s, request, "level1",
                [userName |-> request.level1.userName,
                 birthDate |-> request.level1.birthDate,
                 avatar |-> request.level1.avatar,
                 validationComment |-> comment,
                 isValid |-> valid]), Undefined)

NoCall == [op |-> "", user |-> "", arg |-> Undefined, before |-> Undefined,
           err |-> "", ret |-> Undefined, calls |-> <<>>]

Init ==
  /\ requests = EmptyBag
  /\ checks = {}
  /\ nextCheck = 0
  /\ issued = [p \in Users \X CheckTypes |-> 0]
  /\ consumed = {}
  /\ accounts = {}
  /\ signatures = {}
  /\ tokens = {}
  /\ nextToken = 0
  /\ procs = [p \in Procs |-> Idle]
  /\ last = NoCall

\* A handler call ran to completion (or threw) with outcome r; before is the
\* pending request of that account and level as the call found it.
Commit(op, u, arg, level, r) ==
  /\ requests' = r.s.requests
  /\ checks' = r.s.checks
  /\ nextCheck' = r.s.nextCheck
  /\ issued' = r.s.issued
  /\ consumed' = r.s.consumed
  /\ accounts' = r.s.accounts
  /\ signatures' = r.s.signatures
  /\ tokens' = r.s.tokens
  /\ nextToken' = r.s.nextToken
  /\ procs' = procs
  /\ last' = [op |-> op, user |-> u, arg |-> arg,
              before |-> findOneRequest(requests, u, level),
              err |-> r.err, ret |-> r.ret, calls |-> r.s.calls]

\* A call of a handler that takes no account and works on no request.
CommitPlain(op, arg, r) ==
  /\ requests' = r.s.requests
  /\ checks' = r.s.checks
  /\ nextCheck' = r.s.nextCheck
  /\ issued' = r.s.issued
  /\ consumed' = r.s.consumed
  /\ accounts' = r.s.accounts
  /\ signatures' = r.s.signatures
  /\ tokens' = r.s.tokens
  /\ nextToken' = r.s.nextToken
  /\ procs' = procs
  /\ last' = [op |-> op, user |-> "", arg |-> arg, before |-> Undefined,
              err |-> r.err, ret |-> r.ret, calls |-> r.s.calls]

\* A submission runs while the collection has room for the document it may
\* create.
HasRoom(u, level) ==
  \/ findOneRequest(requests, u, level) # Undefined
  \/ BagCardinality(requests) < MaxRequests

submitLevel1(u, m) ==
  /\ HasRoom(u, "level-1")
  /\ Commit("upsertLevel1Request", u, m, "level-1", upsertLevel1Request(Store, SecurityUser(u), m))

\* sendOk = FALSE is a separate outcome only when the call sends a message.
submitLevel2(u, m, sendOk) ==
  LET r == upsertLevel2Request(Store, SecurityUser(u), m, sendOk) IN
  /\ HasRoom(u, "level-2")
  /\ r.s.nextCheck <= MaxIssued
  /\ sendOk \/ r.err = "SendError"
  /\ Commit("upsertLevel2Request", u, m, "level-2", r)

submitLevel3(u, m) ==
  /\ HasRoom(u, "level-3")
  /\ Commit("upsertLevel3Request", u, m, "level-3", upsertLevel3Request(Store, SecurityUser(u), m))

submitLevel4(u, m) ==
  /\ HasRoom(u, "level-4")
  /\ Commit("upsertLevel4Request", u, m, "level-4", upsertLevel4Request(Store, SecurityUser(u), m))

triggerPhoneConfirmation(u) ==
  LET r == validatePhone(Store, SecurityUser(u)) IN
  /\ r.s.nextCheck <= MaxIssued
  /\ Commit("validatePhone", u, Undefined, "level-2", r)

triggerEmailConfirmation(u, sendOk) ==
  LET r == validateEmail(Store, SecurityUser(u), sendOk) IN
  /\ r.s.nextCheck <= MaxIssued
  /\ sendOk \/ r.err = "SendError"
  /\ Commit("validateEmail", u, Undefined, "level-2", r)

confirmLevel2(u, m) ==
  Commit("confirmLevel2Request", u, m, "level-2",
         confirmLevel2Request(Store, SecurityUser(u), m))

SubmitL1 == \E u \in Users, m \in Level1Models \cup {OtherModel} : submitLevel1(u, m)
SubmitL2 == \E u \in Users, m \in Level2Models \cup {OtherModel}, sendOk \in BOOLEAN :
              submitLevel2(u, m, sendOk)
SubmitL3 == \E u \in Users, m \in Level3Models \cup {OtherModel} : submitLevel3(u, m)
SubmitL4 == \E u \in Users, m \in Level4Models \cup {OtherModel} : submitLevel4(u, m)
TriggerPhone == \E u \in Users : triggerPhoneConfirmation(u)
TriggerEmail == \E u \in Users, sendOk \in BOOLEAN : triggerEmailConfirmation(u, sendOk)
CodesIssued(u, type) == 1 .. issued[<<u, type>>]
ConfirmL2 ==
  \E u \in Users :
    \E m \in ConfirmationModels(CodesIssued(u, "confirm-email"),
                                 CodesIssued(u, "confirm-phone")) \cup {OtherModel} :
      confirmLevel2(u, m)

reviewLevel1(u, comment, valid) ==
  /\ findOneRequest(requests, u, "level-1") # Undefined
  /\ Commit("reviewRequestLevel1", u, [validationComment |-> comment, isValid |-> valid],
            "level-1", reviewRequestLevel1(Store, SecurityUser(u), comment, valid))

ReviewL1 ==
  \E u \in Users, comment \in ReviewComments, valid \in BOOLEAN : reviewLevel1(u, comment, valid)

\* Level 1 alone: submissions and the reviews made between them.
NextLevel1 ==
  \/ SubmitL1
  \/ ReviewL1

SpecLevel1 == Init /\ [][NextLevel1]_vars

ensureSignature(type, value) ==
  CommitPlain("requireSignature", [type |-> type, value |-> value],
              requireSignature(Store, type, value))

resolveAccount(address) ==
  CommitPlain("selectPerson", address, selectPerson(Store, address))

EnsureSignature == \E type \in SignatureTypes, value \in Addresses : ensureSignature(type, value)
ResolveAccount == \E address \in Addresses : resolveAccount(address)

\* The registry of signatures alone.
NextSignature ==
  \/ EnsureSignature
  \/ ResolveAccount

SpecSignature == Init /\ [][NextSignature]_vars

upsert(u, purpose) ==
  LET r == upsertToken(Store, SecurityUser(u), purpose) IN
  /\ r.s.nextToken <= MaxTokens
  /\ CommitPlain("upsertToken", [user |-> u, purpose |-> purpose], r)

revoke(token) == CommitPlain("removeToken", token, removeToken(Store, token))

find(token) == CommitPlain("findToken", token, findToken(Store, token))

Upsert == \E u \in Users, purpose \in Purposes : upsert(u, purpose)
Revoke == \E token \in 1 .. MaxTokens : revoke(token)
Find == \E token \in 1 .. MaxTokens : find(token)

\* The token vault alone.
NextToken ==
  \/ Upsert
  \/ Revoke
  \/ Find

SpecToken == Init /\ [][NextToken]_vars

\* Every handler, one call at a time.
Next ==
  \/ SubmitL1
  \/ SubmitL2
  \/ SubmitL3
  \/ SubmitL4
  \/ TriggerPhone
  \/ TriggerEmail
  \/ ConfirmL2
  \/ EnsureSignature
  \/ ResolveAccount
  \/ Upsert
  \/ Revoke
  \/ Find

Spec == Init /\ [][Next]_vars

\* The level-2 confirmation protocol alone.
NextLevel2 ==
  \/ SubmitL2
  \/ TriggerPhone
  \/ TriggerEmail
  \/ ConfirmL2

SpecLevel2 == Init /\ [][NextLevel2]_vars

\* The four submissions alone.
NextSubmit ==
  \/ SubmitL1
  \/ SubmitL2
  \/ SubmitL3
  \/ SubmitL4

SpecSubmit == Init /\ [][NextSubmit]_vars

----------------------------------------------------------------------------
\* Handler calls in progress at the same time.  A call suspends at each
\* storage call it awaits: a step of a caller is one storage call of its
\* handler together with the code that runs up to the next one.  Each caller
\* makes one call.

\* The storage state after a step, and the caller's new position and locals.
Step(p, s, rec) ==
  /\ requests' = s.requests
  /\ checks' = s.checks
  /\ nextCheck' = s.nextCheck
  /\ issued' = s.issued
  /\ consumed' = s.consumed
  /\ accounts' = s.accounts
  /\ signatures' = s.signatures
  /\ tokens' = s.tokens
  /\ nextToken' = s.nextToken
  /\ procs' = [procs EXCEPT ![p] = rec]
  /\ last' = last

Done(rec, err, ret) == [rec EXCEPT !.pc = "done", !.err = err, !.ret = ret]

\* A new call: its handler, arguments and outcome fields.
Call(op, user, arg) ==
  [pc |-> "called", op |-> op, user |-> user, arg |-> arg, err |-> "", ret |-> Undefined]

\* upsertLevel1Request, lines 122-127: the assert and the findOne.
Submit1Find(p, u, m) ==
  /\ procs[p] = Idle
  /\ LET c == Call("upsertLevel1Request", u, m) IN
     IF m.kind # "Level1"
     THEN Step(p, Store, Done(c @@ [request |-> Undefined], "AssertionError", Undefined))
     ELSE Step(p, Store, [c @@ [request |-> findOneRequest(requests, u, "level-1")]
                            EXCEPT !.pc = "write"])

\* upsertLevel1Request, lines 128-148: request.save() or create.
Submit1Write(p) ==
  /\ procs[p].pc = "write"
  /\ procs[p].op = "upsertLevel1Request"
  /\ LET c == procs[p]
         m == c.arg
     IN IF c.request # Undefined
        THEN Step(p, saveRequest(Store, c.request, "level1",
                       [userName |-> m.userName,
                        birthDate |-> m.birthDate,
                        avatar |-> m.avatar,
                        validationComment |-> NULL,
                        isValid |-> FALSE]),
                  Done(c, "", Undefined))
        ELSE Step(p, createRequest(Store, c.user, "level-1", "level1",
                       [userName |-> m.userName,
                        birthDate |-> m.birthDate,
                        avatar |-> m.avatar]),
                  Done(c, "", Undefined))

\* upsertToken, lines 93-97: the findOne.
TokenFind(p, u, purpose) ==
  /\ procs[p] = Idle
  /\ Step(p, Store,
          [Call("upsertToken", u, purpose) @@
             [token |-> findOneToken(tokens, u, purpose),
              found |-> findOneToken(tokens, u, purpose) # Undefined]
             EXCEPT !.pc = "write"])

\* upsertToken, lines 98-106: token.save() or create.
TokenWrite(p) ==
  /\ procs[p].pc = "write"
  /\ procs[p].op = "upsertToken"
  /\ LET c == procs[p] IN
     IF c.token # Undefined
     THEN Step(p, Store, [c EXCEPT !.pc = "reread"])
     ELSE LET s1 == createToken(Store, c.user, c.arg)
          IN Step(p, s1, [c EXCEPT !.pc = "reread", !.token = newest(s1.tokens)])

\* upsertToken, lines 107-109: the findOne by _id.
TokenReread(p) ==
  /\ procs[p].pc = "reread"
  /\ procs[p].op = "upsertToken"
  /\ LET c == procs[p] IN
     Step(p, Store, Done(c, "", firstOf({ tk \in tokens : tk._id = c.token._id })))

RaceSubmit1Find == \E p \in Procs, u \in Users, m \in Level1Models \cup {OtherModel} : Submit1Find(p, u, m)
RaceSubmit1Write == \E p \in Procs : Submit1Write(p)
RaceTokenFind == \E p \in Procs, u \in Users, purpose \in Purposes : TokenFind(p, u, purpose)
RaceTokenWrite == \E p \in Procs : TokenWrite(p)
RaceTokenReread == \E p \in Procs : TokenReread(p)

\* Two callers, each making one level-1 submission or one upsertToken call.
NextRace ==
  \/ RaceSubmit1Find
  \/ RaceSubmit1Write
  \/ RaceTokenFind
  \/ RaceTokenWrite
  \/ RaceTokenReread

SpecRace == Init /\ [][NextRace]_vars

\* The position after the e-mail part of confirmLevel2Request.
afterEmail(c) ==
  IF c.arg.phoneCode # 0 THEN "findPhone"
  ELSE IF shouldSave(c.isPhoneVerified, c.isEmailVerified) THEN "save" ELSE "return"

\* The position after the phone part of confirmLevel2Request.
afterPhone(c) ==
  IF shouldSave(c.isPhoneVerified, c.isEmailVerified) THEN "save" ELSE "return"

\* The result confirmLevel2Request returns, lines 372-377.
confirmResult(c) ==
  [isEmailTried |-> c.arg.emailCode # 0,
   isEmailVerified |-> c.isEmailVerified,
   isPhoneTried |-> c.arg.phoneCode # 0,
   isPhoneVerified |-> c.isPhoneVerified]

\* A caller whose call has no storage call left returns.
Settle(c) == IF c.pc = "return" THEN Done(c, "", confirmResult(c)) ELSE c

\* confirmLevel2Request, lines 321-333: the asserts and the findOne of the
\* request.
ConfirmFind(p, u, m) ==
  /\ procs[p] = Idle
  /\ LET c == Call("confirmLevel2Request", u, m) @@
               [request |-> findOneRequest(requests, u, "level-2"),
                checkEmail |-> Undefined, checkPhone |-> Undefined,
                isEmailVerified |-> FALSE, isPhoneVerified |-> FALSE]
     IN IF m.kind # "Confirmation" \/ c.request = Undefined
        THEN Step(p, Store, Done(c, "AssertionError", Undefined))
        ELSE Step(p, Store,
                  Settle([c EXCEPT !.pc = IF m.emailCode # 0 THEN "findEmail"
                                          ELSE afterEmail(c)]))

\* lines 335-342: the findOne of the e-mail check.
ConfirmFindEmail(p) ==
  /\ procs[p].pc = "findEmail"
  /\ LET c == procs[p]
         hits == findOneCheck(checks, c.user, "confirm-email",
                              c.request.level2.email, c.arg.emailCode)
     IN IF hits # {}
        THEN Step(p, Store, [c EXCEPT !.pc = "removeEmail",
                                      !.checkEmail = CHOOSE x \in hits : TRUE])
        ELSE Step(p, Store, Settle([c EXCEPT !.pc = afterEmail(c)]))

\* lines 343-347: checkEmail.remove() and the two assignments.
ConfirmRemoveEmail(p) ==
  /\ procs[p].pc = "removeEmail"
  /\ LET c == [procs[p] EXCEPT !.isEmailVerified = TRUE]
     IN Step(p, removeCheck(Store, c.checkEmail), Settle([c EXCEPT !.pc = afterEmail(c)]))

\* lines 354-360: the findOne of the phone check.
ConfirmFindPhone(p) ==
  /\ procs[p].pc = "findPhone"
  /\ LET c == procs[p]
         hits == findOneCheck(checks, c.user, "confirm-phone",
                              c.request.level2.phone, c.arg.phoneCode)
     IN IF hits # {}
        THEN Step(p, Store, [c EXCEPT !.pc = "removePhone",
                                      !.checkPhone = CHOOSE x \in hits : TRUE])
        ELSE Step(p, Store, Settle([c EXCEPT !.pc = afterPhone(c)]))

\* lines 361-365: checkPhone.remove() and the two assignments.
ConfirmRemovePhone(p) ==
  /\ procs[p].pc = "removePhone"
  /\ LET c == [procs[p] EXCEPT !.isPhoneVerified = TRUE]
     IN Step(p, removeCheck(Store, c.checkPhone), Settle([c EXCEPT !.pc = afterPhone(c)]))

\* lines 368-370: request.save() writes the flags this call has assigned.
ConfirmSave(p) ==
  /\ procs[p].pc = "save"
  /\ LET c == procs[p]
         stored == CHOOSE d \in BagToSet(requests) : d._id = c.request._id
         level2 == [stored.level2 EXCEPT
                      !.isEmailConfirmed = IF c.isEmailVerified THEN TRUE ELSE @,
                      !.isPhoneConfirmed = IF c.isPhoneVerified THEN TRUE ELSE @]
     IN Step(p, saveRequest(Store, c.request, "level2", level2),
             Done(c, "", confirmResult(c)))

\* The first level-2 submission, made before any caller starts.
SetupL2 ==
  /\ requests = EmptyBag
  /\ \A p \in Procs : procs[p] = Idle
  /\ \E u \in Users, m \in Level2Models, sendOk \in BOOLEAN : submitLevel2(u, m, sendOk)

RaceConfirmFind ==
  \E p \in Procs, u \in Users :
    \E m \in ConfirmationModels(CodesIssued(u, "confirm-email"),
                                 CodesIssued(u, "confirm-phone")) \cup {OtherModel} :
      ConfirmFind(p, u, m)
RaceConfirmFindEmail == \E p \in Procs : ConfirmFindEmail(p)
RaceConfirmRemoveEmail == \E p \in Procs : ConfirmRemoveEmail(p)
RaceConfirmFindPhone == \E p \in Procs : ConfirmFindPhone(p)
RaceConfirmRemovePhone == \E p \in Procs : ConfirmRemovePhone(p)
RaceConfirmSave == \E p \in Procs : ConfirmSave(p)

\* A level-2 submission followed by two callers' confirmLevel2Request calls.
NextConfirmRace ==
  \/ SetupL2
  \/ RaceConfirmFind
  \/ RaceConfirmFindEmail
  \/ RaceConfirmRemoveEmail
  \/ RaceConfirmFindPhone
  \/ RaceConfirmRemovePhone
  \/ RaceConfirmSave

SpecConfirmRace == Init /\ [][NextConfirmRace]_vars

\* requireSignature, lines 69-75: the findOne.
SignatureFind(p, type, value) ==
  /\ procs[p] = Idle
  /\ LET c == Call("requireSignature", "", [type |-> type, value |-> value])
         signature == populateUser(findOneSignature(signatures, type, value), accounts)
     IN IF signature # Undefined
        THEN Step(p, Store, Done(c @@ [u |-> Undefined, s |-> Undefined], "", signature))
        ELSE Step(p, Store, [c @@ [u |-> Undefined, s |-> Undefined]
                               EXCEPT !.pc = "createUser"])

\* lines 77-78: SecurityUser.model.create.
SignatureCreateUser(p) ==
  /\ procs[p].pc = "createUser"
  /\ LET c == procs[p]
         s1 == createUser(Store, <<c.arg.type, ":", c.arg.value>>)
     IN Step(p, s1, [c EXCEPT !.pc = "createSignature", !.u = newest(s1.accounts)])

\* lines 79-80: SecuritySignature.model.create.
SignatureCreate(p) ==
  /\ procs[p].pc = "createSignature"
  /\ LET c == procs[p]
         s2 == createSignature(Store, c.u._id, c.arg.type, c.arg.value)
     IN Step(p, s2, [c EXCEPT !.pc = "reread", !.s = newest(s2.signatures)])

\* lines 81-83: the findOne by _id.
SignatureReread(p) ==
  /\ procs[p].pc = "reread"
  /\ procs[p].op = "requireSignature"
  /\ LET c == procs[p] IN
     Step(p, Store,
          Done(c, "", populateUser(firstOf({ x \in signatures : x._id = c.s._id }), accounts)))

RaceSignatureFind == \E p \in Procs, type \in SignatureTypes, value \in Addresses : SignatureFind(p, type, value)
RaceSignatureCreateUser == \E p \in Procs : SignatureCreateUser(p)
RaceSignatureCreate == \E p \in Procs : SignatureCreate(p)
RaceSignatureReread == \E p \in Procs : SignatureReread(p)

\* Two callers, each making one requireSignature call.
NextSignatureRace ==
  \/ RaceSignatureFind
  \/ RaceSignatureCreateUser
  \/ RaceSignatureCreate
  \/ RaceSignatureReread

SpecSignatureRace == Init /\ [][NextSignatureRace]_vars

TypeOK ==
  /\ nextCheck \in 0 .. MaxIssued
  /\ \A c \in checks \cup consumed : c.check \in 1 .. issued[<<c.user, c.type>>]

----------------------------------------------------------------------------
\* Helpers for the properties.

Levels == {"level-1", "level-2", "level-3", "level-4"}
\* Number of 'created' requests of an account at a level.
CountCreated(reqs, u, level) ==
  LET hits == { d \in BagToSet(reqs) :
                  d.user = u /\ d.level = level /\ d.status = "created" }
  IN BagCardinality([d \in hits |-> CopiesIn(d, reqs)])

ChecksOf(cs, u, type) == { c \in cs : c.user = u /\ c.type = type }

\* Number of times a handler made the storage or mail call named.
CallCount(calls, name) == Cardinality({ i \in DOMAIN calls : calls[i] = name })

\* The step is a call of handler op by account u.
Called(op, u) == last'.op = op /\ last'.user = u

\* The pending ('created') request of an account at a level, Undefined
\* when there is none.
Pending(reqs, u, level) ==
  LET hits == { d \in BagToSet(reqs) :
                  d.user = u /\ d.level = level /\ d.status = "created" }
  IN IF hits = {} THEN Undefined ELSE CHOOSE d \in hits : TRUE

\* A check of the account and purpose with that payload was consumed.
WasConsumed(cs, u, type, payload) ==
  \E c \in cs : c.user = u /\ c.type = type /\ c.payload = payload

\* The step is a level-2 resubmission by u: a request was pending.
Resubmit2(u) ==
  /\ Called("upsertLevel2Request", u)
  /\ last'.arg.kind = "Level2"
  /\ last'.before # Undefined

----------------------------------------------------------------------------
\* C1: submissions that run one at a time leave at most one 'created'
\* request per (account, level), and a submission made while such a request
\* exists saves that request and creates no document.
C1_OneCreatedPerLevel ==
  [][ /\ \A u \in Users, level \in Levels : CountCreated(requests', u, level) <= 1
      /\ \A u \in Users :
           /\ last'.user = u
           /\ last'.err = ""
           /\ last'.before # Undefined
           => /\ BagCardinality(requests') = BagCardinality(requests)
              /\ CallCount(last'.calls, "VerificationRequest.create") = 0
              /\ CallCount(last'.calls, "VerificationRequest.save") = 1 ]_vars

\* A resubmission at level 3 with a different payload has run, with the
\* level-1 request of the same account in the collection too.
C1_Witness ==
  \E u \in Users :
    /\ last.op = "upsertLevel3Request" /\ last.user = u /\ last.err = ""
    /\ last.before # Undefined
    /\ last.before.level3.passport # last.arg.passport
    /\ CountCreated(requests, u, "level-3") = 1
    /\ CountCreated(requests, u, "level-1") = 1

\* C2: at most one check per (account, purpose) after any serialized run of
\* submitLevel2, the two triggers and confirmLevel2; after a trigger the
\* only check of that purpose is the one it created.
C2_OneCheckPerPurpose ==
  [][ /\ \A u \in Users, type \in CheckTypes : Cardinality(ChecksOf(checks', u, type)) <= 1
      /\ \A u \in Users :
           /\ Called("validatePhone", u) /\ last'.err = ""
           => \A c \in ChecksOf(checks', u, "confirm-phone") :
                c.check > issued[<<u, "confirm-phone">>]
      /\ \A u \in Users :
           /\ Called("validateEmail", u) /\ last'.err # "Illegal state"
           => \A c \in ChecksOf(checks', u, "confirm-email") :
                c.check > issued[<<u, "confirm-email">>] ]_vars

\* A trigger has replaced an earlier, unconsumed phone check of the account.
C2_Witness ==
  \E u \in Users :
    /\ last.op = "validatePhone" /\ last.user = u /\ last.err = ""
    /\ issued[<<u, "confirm-phone">>] >= 2
    /\ ChecksOf(consumed, u, "confirm-phone") = {}
    /\ Cardinality(ChecksOf(checks, u, "confirm-phone")) = 1

\* C3: a confirmed flag of the pending level-2 request always belongs to a
\* value that was confirmed by consuming a check with that payload or that
\* is the account's own level-2 value; and a resubmission that changes a
\* value leaves its flag false and a new check carrying the new value.
C3_ChangeInvalidates ==
  [][ /\ \A u \in Users :
           LET r == Pending(requests', u, "level-2") IN
           r # Undefined =>
             /\ r.level2.isEmailConfirmed =>
                  \/ WasConsumed(consumed', u, "confirm-email", r.level2.email)
                  \/ r.level2.email = SecurityUser(u).level2.email
             /\ r.level2.isPhoneConfirmed =>
                  \/ WasConsumed(consumed', u, "confirm-phone", r.level2.phone)
                  \/ r.level2.phone = SecurityUser(u).level2.phone
      /\ \A u \in Users :
           Resubmit2(u) =>
             LET r == Pending(requests', u, "level-2") IN
             /\ last'.arg.email # last'.before.level2.email =>
                  /\ r.level2.email = last'.arg.email
                  /\ ~r.level2.isEmailConfirmed
                  /\ \E c \in ChecksOf(checks', u, "confirm-email") :
                       /\ c.payload = last'.arg.email
                       /\ c.check > issued[<<u, "confirm-email">>]
             /\ last'.arg.phone # last'.before.level2.phone =>
                  /\ r.level2.phone = last'.arg.phone
                  /\ ~r.level2.isPhoneConfirmed
                  /\ \E c \in ChecksOf(checks', u, "confirm-phone") :
                       /\ c.payload = last'.arg.phone
                       /\ c.check > issued[<<u, "confirm-phone">>] ]_vars

\* A resubmission has changed an e-mail that had been confirmed by code:
\* the flag is false again and a check for the new e-mail is stored.
C3_Witness ==
  \E u \in Users :
    /\ last.op = "upsertLevel2Request" /\ last.user = u
    /\ last.arg.kind = "Level2"
    /\ last.before # Undefined
    /\ last.before.level2.isEmailConfirmed
    /\ WasConsumed(consumed, u, "confirm-email", last.before.level2.email)
    /\ last.arg.email # last.before.level2.email
    /\ ~Pending(requests, u, "level-2").level2.isEmailConfirmed
    /\ \E c \in ChecksOf(checks, u, "confirm-email") : c.payload = last.arg.email

\* C4 as stated: a resubmission with the pending e-mail and another phone
\* keeps isEmailConfirmed, resets isPhoneConfirmed, issues exactly one phone
\* check and no e-mail check.
C4_Original ==
  [][ \A u \in Users :
        /\ Resubmit2(u)
        /\ last'.arg.email = last'.before.level2.email
        /\ last'.arg.phone # last'.before.level2.phone
        => LET r == Pending(requests', u, "level-2") IN
           /\ r.level2.isEmailConfirmed = last'.before.level2.isEmailConfirmed
           /\ ~r.level2.isPhoneConfirmed
           /\ CallCount(last'.calls, "SecurityCheck.create:confirm-phone") = 1
           /\ CallCount(last'.calls, "SecurityCheck.create:confirm-email") = 0 ]_vars

\* C4 amended: as C4, but the e-mail check is issued exactly when the kept
\* isEmailConfirmed is false: none when it is true, one when it is false.
C4_PhoneChangeOnly ==
  [][ \A u \in Users :
        /\ Resubmit2(u)
        /\ last'.arg.email = last'.before.level2.email
        /\ last'.arg.phone # last'.before.level2.phone
        => LET r == Pending(requests', u, "level-2") IN
           /\ r.level2.isEmailConfirmed = last'.before.level2.isEmailConfirmed
           /\ ~r.level2.isPhoneConfirmed
           /\ CallCount(last'.calls, "SecurityCheck.create:confirm-phone") = 1
           /\ CallCount(last'.calls, "SecurityCheck.create:confirm-email") =
                IF last'.before.level2.isEmailConfirmed THEN 0 ELSE 1 ]_vars

\* A resubmission kept a confirmed e-mail and replaced a confirmed phone:
\* one phone check was issued and no e-mail check.
C4_Witness ==
  \E u \in Users :
    /\ last.op = "upsertLevel2Request" /\ last.user = u /\ last.err = ""
    /\ last.before # Undefined
    /\ last.arg.email = last.before.level2.email
    /\ last.arg.phone # last.before.level2.phone
    /\ last.before.level2.isEmailConfirmed
    /\ last.before.level2.isPhoneConfirmed
    /\ Pending(requests, u, "level-2").level2.isEmailConfirmed
    /\ ~Pending(requests, u, "level-2").level2.isPhoneConfirmed
    /\ CallCount(last.calls, "SecurityCheck.create:confirm-phone") = 1
    /\ CallCount(last.calls, "SecurityCheck.create:confirm-email") = 0

\* The submission of the C5 scenario.
ScenarioModel == [kind |-> "Level2", email |-> "a@x.com", phone |-> "+1000"]

\* The step is the first level-2 submission, with ScenarioModel, of an
\* account whose e-mail is a@x.com.
FirstScenarioSubmit(u) ==
  /\ Called("upsertLevel2Request", u)
  /\ SecurityUser(u).level2.email = "a@x.com"
  /\ last'.before = Undefined
  /\ last'.arg = ScenarioModel

\* C5 as stated: the first submission {a@x.com, +1000} of an account whose
\* e-mail is a@x.com creates the request with both flags false, issues one
\* check of each purpose and attempts one dispatch.
C5_Original ==
  [][ \A u \in Users :
        FirstScenarioSubmit(u)
        => LET r == Pending(requests', u, "level-2") IN
           /\ r # Undefined
           /\ ~r.level2.isEmailConfirmed
           /\ ~r.level2.isPhoneConfirmed
           /\ CallCount(last'.calls, "SecurityCheck.create:confirm-phone") = 1
           /\ CallCount(last'.calls, "SecurityCheck.create:confirm-email") = 1
           /\ CallCount(last'.calls, "Message.send") = 1 ]_vars

\* C5 amended: that submission creates the request with isEmailConfirmed
\* true (the e-mail is the account's) and isPhoneConfirmed true exactly when
\* +1000 is the account's phone; it issues a phone check exactly when
\* isPhoneConfirmed is false, no e-mail check, and attempts no dispatch.
C5_FirstSubmitOwnEmail ==
  [][ \A u \in Users :
        FirstScenarioSubmit(u)
        => LET r == Pending(requests', u, "level-2") IN
           /\ r # Undefined
           /\ last'.err = ""
           /\ CallCount(last'.calls, "VerificationRequest.create") = 1
           /\ r.level2.email = "a@x.com" /\ r.level2.phone = "+1000"
           /\ r.level2.isEmailConfirmed
           /\ r.level2.isPhoneConfirmed = (SecurityUser(u).level2.phone = "+1000")
           /\ CallCount(last'.calls, "SecurityCheck.create:confirm-phone") =
                IF r.level2.isPhoneConfirmed THEN 0 ELSE 1
           /\ ~r.level2.isPhoneConfirmed =>
                \E c \in ChecksOf(checks', u, "confirm-phone") : c.payload = "+1000"
           /\ CallCount(last'.calls, "SecurityCheck.create:confirm-email") = 0
           /\ ChecksOf(checks', u, "confirm-email") = ChecksOf(checks, u, "confirm-email")
           /\ CallCount(last'.calls, "Message.send") = 0 ]_vars

\* The account with e-mail a@x.com has made that first submission.
C5_Witness ==
  \E u \in Users :
    /\ last.op = "upsertLevel2Request" /\ last.user = u /\ last.err = ""
    /\ SecurityUser(u).level2.email = "a@x.com"
    /\ last.before = Undefined
    /\ last.arg = ScenarioModel
    /\ Pending(requests, u, "level-2").level2.isEmailConfirmed
    /\ ~Pending(requests, u, "level-2").level2.isPhoneConfirmed
    /\ Cardinality(ChecksOf(checks, u, "confirm-phone")) = 1
    /\ ChecksOf(checks, u, "confirm-email") = {}

\* C6: resubmitting the same e-mail and phone while the e-mail is confirmed
\* and the phone is not keeps both flags, replaces the phone check by a new
\* one, and issues no e-mail check and no dispatch.
C6_SameValuesResubmit ==
  [][ \A u \in Users :
        /\ Resubmit2(u)
        /\ last'.before.level2.isEmailConfirmed
        /\ ~last'.before.level2.isPhoneConfirmed
        /\ last'.arg.email = last'.before.level2.email
        /\ last'.arg.phone = last'.before.level2.phone
        => LET r == Pending(requests', u, "level-2") IN
           /\ last'.err = ""
           /\ r.level2.isEmailConfirmed
           /\ ~r.level2.isPhoneConfirmed
           /\ CallCount(last'.calls, "SecurityCheck.create:confirm-phone") = 1
           /\ ChecksOf(checks', u, "confirm-phone") =
                { [user |-> u, type |-> "confirm-phone", payload |-> last'.arg.phone,
                   check |-> issued[<<u, "confirm-phone">>] + 1] }
           /\ CallCount(last'.calls, "SecurityCheck.create:confirm-email") = 0
           /\ ChecksOf(checks', u, "confirm-email") = ChecksOf(checks, u, "confirm-email")
           /\ CallCount(last'.calls, "Message.send") = 0 ]_vars

\* Such a resubmission has run after the e-mail was confirmed by code, and
\* the phone check in store is the second one of the account.
C6_Witness ==
  \E u \in Users :
    /\ last.op = "upsertLevel2Request" /\ last.user = u /\ last.err = ""
    /\ last.before # Undefined
    /\ last.before.level2.isEmailConfirmed
    /\ ~last.before.level2.isPhoneConfirmed
    /\ last.arg.email = last.before.level2.email
    /\ last.arg.phone = last.before.level2.phone
    /\ WasConsumed(consumed, u, "confirm-email", last.arg.email)
    /\ \E c \in ChecksOf(checks, u, "confirm-phone") : c.check >= 2

\* The step is a confirmLevel2 call by u that found the pending request.
Confirm2(u) ==
  /\ Called("confirmLevel2Request", u)
  /\ last'.arg.kind = "Confirmation"
  /\ last'.before # Undefined

\* The stored checks a submitted code matches, for the value on the pending
\* request of u.
Matching(cs, u, type, payload, code) ==
  { c \in ChecksOf(cs, u, type) : c.payload = payload /\ c.check = code }

\* C7: once a later check of the same purpose was issued to the account, an
\* earlier code no longer verifies the channel: only the code issued last
\* can.
C7_OnlyLastCodeVerifies ==
  [][ \A u \in Users :
        Confirm2(u) =>
          /\ last'.ret.isEmailVerified =>
               last'.arg.emailCode = issued[<<u, "confirm-email">>]
          /\ last'.ret.isPhoneVerified =>
               last'.arg.phoneCode = issued[<<u, "confirm-phone">>]
          /\ (last'.arg.emailCode # 0 /\ last'.arg.emailCode < issued[<<u, "confirm-email">>])
               => last'.ret.isEmailTried /\ ~last'.ret.isEmailVerified
          /\ (last'.arg.phoneCode # 0 /\ last'.arg.phoneCode < issued[<<u, "confirm-phone">>])
               => last'.ret.isPhoneTried /\ ~last'.ret.isPhoneVerified ]_vars

\* Two e-mail checks were issued to the account and none was consumed; a
\* confirmLevel2 with the first code has run and did not verify, and the
\* second check is still stored.
C7_Witness ==
  \E u \in Users :
    /\ last.op = "confirmLevel2Request" /\ last.user = u /\ last.err = ""
    /\ issued[<<u, "confirm-email">>] = 2
    /\ ChecksOf(consumed, u, "confirm-email") = {}
    /\ last.arg.emailCode = 1
    /\ last.ret.isEmailTried /\ ~last.ret.isEmailVerified
    /\ \E c \in ChecksOf(checks, u, "confirm-email") :
         c.check = 2 /\ c.payload = Pending(requests, u, "level-2").level2.email

\* C8: confirmLevel2 with the code of the stored e-mail check and no phone
\* code returns {tried, verified, not tried, not verified} for e-mail and
\* phone, sets isEmailConfirmed and destroys the check; a second call with
\* the same e-mail code does not verify.
C8_EmailCodeConsumedOnce ==
  [][ /\ \A u \in Users :
           /\ Confirm2(u)
           /\ last'.arg.phoneCode = 0
           /\ Matching(checks, u, "confirm-email", last'.before.level2.email,
                       last'.arg.emailCode) # {}
           => /\ last'.err = ""
              /\ last'.ret = [isEmailTried |-> TRUE, isEmailVerified |-> TRUE,
                              isPhoneTried |-> FALSE, isPhoneVerified |-> FALSE]
              /\ Pending(requests', u, "level-2").level2.isEmailConfirmed
              /\ Matching(checks', u, "confirm-email", last'.before.level2.email,
                          last'.arg.emailCode) = {}
              /\ ChecksOf(checks', u, "confirm-phone") = ChecksOf(checks, u, "confirm-phone")
      /\ \A u \in Users :
           /\ last.op = "confirmLevel2Request" /\ last.user = u /\ last.err = ""
           /\ last.ret.isEmailVerified
           /\ Confirm2(u)
           /\ last'.arg.emailCode = last.arg.emailCode
           => /\ last'.ret.isEmailTried
              /\ ~last'.ret.isEmailVerified ]_vars

\* The e-mail check was consumed by a call without phone code, and a second
\* call with the same e-mail code has run and did not verify.
C8_Witness ==
  \E u \in Users :
    /\ last.op = "confirmLevel2Request" /\ last.user = u /\ last.err = ""
    /\ last.arg.phoneCode = 0
    /\ last.arg.emailCode # 0
    /\ last.before.level2.isEmailConfirmed
    /\ \E c \in ChecksOf(consumed, u, "confirm-email") :
         c.check = last.arg.emailCode /\ c.payload = last.before.level2.email
    /\ last.ret = [isEmailTried |-> TRUE, isEmailVerified |-> FALSE,
                   isPhoneTried |-> FALSE, isPhoneVerified |-> FALSE]

\* C9 as stated: a code that matches no stored check gives tried and not
\* verified for its channel, and the call changes no check, does not modify
\* the request and does not save it.
C9_Original ==
  [][ \A u \in Users :
        Confirm2(u) =>
          /\ ( /\ last'.arg.emailCode # 0
               /\ Matching(checks, u, "confirm-email", last'.before.level2.email,
                           last'.arg.emailCode) = {} )
             => /\ last'.ret.isEmailTried /\ ~last'.ret.isEmailVerified
                /\ checks' = checks
                /\ requests' = requests
                /\ CallCount(last'.calls, "VerificationRequest.save") = 0
          /\ ( /\ last'.arg.phoneCode # 0
               /\ Matching(checks, u, "confirm-phone", last'.before.level2.phone,
                           last'.arg.phoneCode) = {} )
             => /\ last'.ret.isPhoneTried /\ ~last'.ret.isPhoneVerified
                /\ checks' = checks
                /\ requests' = requests
                /\ CallCount(last'.calls, "VerificationRequest.save") = 0 ]_vars

\* No code of the confirmation matches a stored check of u.
NoCodeMatches(u) ==
  /\ \/ last'.arg.emailCode = 0
     \/ Matching(checks, u, "confirm-email", last'.before.level2.email,
                 last'.arg.emailCode) = {}
  /\ \/ last'.arg.phoneCode = 0
     \/ Matching(checks, u, "confirm-phone", last'.before.level2.phone,
                 last'.arg.phoneCode) = {}

\* C9 amended: a code that matches no stored check gives tried and not
\* verified for its channel and leaves the checks of that purpose and the
\* flag of that channel as they were; when no submitted code matches, no
\* check changes and the request is neither modified nor saved.
C9_WrongCodeFrame ==
  [][ \A u \in Users :
        Confirm2(u) =>
          /\ ( /\ last'.arg.emailCode # 0
               /\ Matching(checks, u, "confirm-email", last'.before.level2.email,
                           last'.arg.emailCode) = {} )
             => /\ last'.ret.isEmailTried /\ ~last'.ret.isEmailVerified
                /\ ChecksOf(checks', u, "confirm-email") = ChecksOf(checks, u, "confirm-email")
                /\ Pending(requests', u, "level-2").level2.isEmailConfirmed
                     = last'.before.level2.isEmailConfirmed
          /\ ( /\ last'.arg.phoneCode # 0
               /\ Matching(checks, u, "confirm-phone", last'.before.level2.phone,
                           last'.arg.phoneCode) = {} )
             => /\ last'.ret.isPhoneTried /\ ~last'.ret.isPhoneVerified
                /\ ChecksOf(checks', u, "confirm-phone") = ChecksOf(checks, u, "confirm-phone")
                /\ Pending(requests', u, "level-2").level2.isPhoneConfirmed
                     = last'.before.level2.isPhoneConfirmed
          /\ NoCodeMatches(u)
             => /\ checks' = checks
                /\ requests' = requests
                /\ CallCount(last'.calls, "VerificationRequest.save") = 0 ]_vars

\* A call with a stale e-mail code and no phone code has run: nothing was
\* verified or saved, and the check issued last is still stored.
C9_Witness ==
  \E u \in Users :
    /\ last.op = "confirmLevel2Request" /\ last.user = u /\ last.err = ""
    /\ last.arg.emailCode # 0 /\ last.arg.phoneCode = 0
    /\ last.ret = [isEmailTried |-> TRUE, isEmailVerified |-> FALSE,
                   isPhoneTried |-> FALSE, isPhoneVerified |-> FALSE]
    /\ last.calls = <<>>
    /\ ~Pending(requests, u, "level-2").level2.isEmailConfirmed
    /\ \E c \in ChecksOf(checks, u, "confirm-email") :
         /\ c.check # last.arg.emailCode
         /\ c.payload = Pending(requests, u, "level-2").level2.email

\* C10: a submission at level 1, 3 or 4 made while a request of that level
\* is pending leaves exactly one 'created' request of the account at that
\* level, and each payload field of it is the field of that submission.
C10_SecondSubmissionOverwrites ==
  [][ \A u \in Users :
        /\ last'.user = u
        /\ last'.err = ""
        /\ last'.before # Undefined
        => /\ last'.op = "upsertLevel1Request" =>
                /\ CountCreated(requests', u, "level-1") = 1
                /\ LET d == Pending(requests', u, "level-1").level1 IN
                   /\ d.userName = last'.arg.userName
                   /\ d.birthDate = last'.arg.birthDate
                   /\ d.avatar = last'.arg.avatar
           /\ last'.op = "upsertLevel3Request" =>
                /\ CountCreated(requests', u, "level-3") = 1
                /\ LET d == Pending(requests', u, "level-3").level3 IN
                   /\ d.passport = last'.arg.passport
                   /\ d.expirationDate = last'.arg.expirationDate
                   /\ d.attachments = last'.arg.attachments
           /\ last'.op = "upsertLevel4Request" =>
                /\ CountCreated(requests', u, "level-4") = 1
                /\ LET d == Pending(requests', u, "level-4").level4 IN
                   /\ d.country = last'.arg.country
                   /\ d.state = last'.arg.state
                   /\ d.city = last'.arg.city
                   /\ d.zip = last'.arg.zip
                   /\ d.addressLine1 = last'.arg.addressLine1
                   /\ d.addressLine2 = last'.arg.addressLine2
                   /\ d.attachments = last'.arg.attachments ]_vars

\* A second level-4 submission with another payload has run: the single
\* request carries the second payload.
C10_Witness ==
  \E u \in Users :
    /\ last.op = "upsertLevel4Request" /\ last.user = u /\ last.err = ""
    /\ last.before # Undefined
    /\ last.before.level4.addressLine2 # last.arg.addressLine2
    /\ last.before.level4.country # last.arg.country
    /\ CountCreated(requests, u, "level-4") = 1
    /\ Pending(requests, u, "level-4").level4.addressLine2 = last.arg.addressLine2
    /\ Pending(requests, u, "level-4").level4.country = last.arg.country

\* C13: a trigger called when the account has no pending level-2 request, or
\* when the channel is already confirmed on it, throws 'Illegal state' and
\* makes no storage or mail call: no check is removed, none is created and
\* no message is sent.
C13_IllegalStateNoEffect ==
  [][ \A u \in Users :
        /\ Called("validatePhone", u) =>
             LET r == Pending(requests, u, "level-2") IN
             (r = Undefined \/ r.level2.isPhoneConfirmed)
             => /\ last'.err = "Illegal state"
                /\ last'.calls = <<>>
                /\ checks' = checks
                /\ issued' = issued
        /\ Called("validateEmail", u) =>
             LET r == Pending(requests, u, "level-2") IN
             (r = Undefined \/ r.level2.isEmailConfirmed)
             => /\ last'.err = "Illegal state"
                /\ last'.calls = <<>>
                /\ checks' = checks
                /\ issued' = issued ]_vars

\* The e-mail trigger was refused for a confirmed e-mail while a phone check
\* of the same account was stored.
C13_Witness ==
  \E u \in Users :
    /\ last.op = "validateEmail" /\ last.user = u
    /\ last.err = "Illegal state"
    /\ last.before # Undefined
    /\ last.before.level2.isEmailConfirmed
    /\ ChecksOf(checks, u, "confirm-phone") # {}

\* The confirmation that carries only the e-mail code given.
EmailCodeOnly(code) == [kind |-> "Confirmation", emailCode |-> code, phoneCode |-> 0]

\* C14: a call whose message.send() rejects throws the send error, both
\* validateEmail itself and upsertLevel2Request when it reached the send;
\* the confirm-email check created before the send is still stored after
\* the failure, and confirmLevel2Request with its code verifies the e-mail
\* and consumes it.
C14_SendFailureKeepsCheck ==
  /\ \A u \in Users :
        LET r == validateEmail(Store, SecurityUser(u), FALSE) IN
        CallCount(r.s.calls, "Message.send") > 0
        => /\ r.err = "SendError"
           /\ Cardinality(ChecksOf(r.s.checks, u, "confirm-email")) = 1
  /\ \A u \in Users, m \in Level2Models :
        LET r == upsertLevel2Request(Store, SecurityUser(u), m, FALSE) IN
        CallCount(r.s.calls, "Message.send") > 0
        => /\ r.err = "SendError"
           /\ \E c \in ChecksOf(r.s.checks, u, "confirm-email") : c.payload = m.email
  /\ last.err = "SendError" =>
        LET u == last.user
            cs == ChecksOf(checks, u, "confirm-email")
        IN /\ Cardinality(cs) = 1
           /\ \A c \in cs :
                LET r == confirmLevel2Request(Store, SecurityUser(u), EmailCodeOnly(c.check))
                IN /\ c.check = issued[<<u, "confirm-email">>]
                   /\ r.err = ""
                   /\ r.ret.isEmailVerified
                   /\ c \notin r.s.checks
                   /\ c \in r.s.consumed

\* A resubmission at level 2 failed on the send and left the new e-mail
\* check in storage.
C14_Witness ==
  \E u \in Users :
    /\ last.op = "upsertLevel2Request" /\ last.user = u
    /\ last.err = "SendError"
    /\ last.before # Undefined
    /\ \E c \in ChecksOf(checks, u, "confirm-email") :
         c.check = issued[<<u, "confirm-email">>] /\ c.payload = last.arg.email

\* C19: between calls that run one at a time, a channel that is unconfirmed
\* on the pending level-2 request of an account has exactly one check, whose
\* payload is the request's current value, and a channel whose flag is true
\* has no check.
C19_UnconfirmedHasOneCheck ==
  \A u \in Users :
    LET r == Pending(requests, u, "level-2") IN
    r # Undefined =>
      /\ ~r.level2.isPhoneConfirmed =>
           /\ Cardinality(ChecksOf(checks, u, "confirm-phone")) = 1
           /\ \A c \in ChecksOf(checks, u, "confirm-phone") : c.payload = r.level2.phone
      /\ ~r.level2.isEmailConfirmed =>
           /\ Cardinality(ChecksOf(checks, u, "confirm-email")) = 1
           /\ \A c \in ChecksOf(checks, u, "confirm-email") : c.payload = r.level2.email
      /\ r.level2.isPhoneConfirmed => ChecksOf(checks, u, "confirm-phone") = {}
      /\ r.level2.isEmailConfirmed => ChecksOf(checks, u, "confirm-email") = {}

\* After a send failure the account has a confirmed phone, consumed by a
\* code, and an unconfirmed e-mail with its check.
C19_Witness ==
  \E u \in Users :
    LET r == Pending(requests, u, "level-2") IN
    /\ r # Undefined
    /\ last.err = "SendError" /\ last.user = u
    /\ r.level2.isPhoneConfirmed
    /\ ChecksOf(consumed, u, "confirm-phone") # {}
    /\ ~r.level2.isEmailConfirmed
    /\ ChecksOf(checks, u, "confirm-email") # {}

\* Signatures stored for a (type, value) pair, and accounts named after it.
SignaturesOf(sigs, type, value) == { sg \in sigs : sg.type = type /\ sg.value = value }
AccountsNamed(accs, type, value) == { a \in accs : a.name = <<type, ":", value>> }

\* C11: when requireSignature is called twice in succession with the same
\* { type, value }, the second call returns the signature the first call
\* returned, bound to the same account, and creates nothing; after the two
\* calls one signature is stored for the pair and one account carries its
\* name, the first call having created at most one of each.
C11_EnsureSignatureIdempotent ==
  [][ ( /\ last.op = "requireSignature"
        /\ last'.op = "requireSignature"
        /\ last'.arg = last.arg )
      => /\ last'.err = "" /\ last.err = ""
         /\ last'.ret = last.ret
         /\ last'.ret.user._id = last.ret.user._id
         /\ last'.ret.user \in accounts'
         /\ signatures' = signatures
         /\ accounts' = accounts
         /\ CallCount(last'.calls, "SecuritySignature.create") = 0
         /\ CallCount(last'.calls, "SecurityUser.create") = 0
         /\ CallCount(last.calls, "SecuritySignature.create") <= 1
         /\ CallCount(last.calls, "SecurityUser.create") <= 1
         /\ Cardinality(SignaturesOf(signatures', last'.arg.type, last'.arg.value)) = 1
         /\ Cardinality(AccountsNamed(accounts', last'.arg.type, last'.arg.value)) = 1
    ]_vars

\* The call before last created the account and the signature of a pair
\* whose value has an upper-case letter, with other signatures stored; the
\* last call, with the same arguments, found them.
C11_Witness ==
  /\ last.op = "requireSignature"
  /\ last.arg.value # toLowerCase(last.arg.value)
  /\ last.calls = <<"SecuritySignature.findOne">>
  /\ Cardinality(signatures) >= 3
  /\ \E sg \in signatures :
       /\ sg._id = Cardinality(signatures)
       /\ sg.type = last.arg.type /\ sg.value = last.arg.value
       /\ last.ret._id = sg._id

\* Tokens stored for an (account, purpose) pair.
TokensOf(toks, u, purpose) == { tk \in toks : tk.user = u /\ tk.purpose = purpose }

\* C12: after any run of upsertToken, removeToken and findToken calls made
\* one at a time, at most one token is stored per (account, purpose); and
\* when upsertToken is called twice in succession for the same pair, the
\* second call returns the token with the _id the first returned and the
\* collection is unchanged.
C12_OneTokenPerPurpose ==
  [][ /\ \A u \in Users, purpose \in Purposes :
           Cardinality(TokensOf(tokens', u, purpose)) <= 1
      /\ ( /\ last.op = "upsertToken"
            /\ last'.op = "upsertToken"
            /\ last'.arg = last.arg )
         => /\ last'.err = "" /\ last.err = ""
            /\ last'.ret._id = last.ret._id
            /\ tokens' = tokens
            /\ CallCount(last'.calls, "SecurityToken.create") = 0
            /\ CallCount(last'.calls, "SecurityToken.save") = 1
    ]_vars

\* The last two calls were upsertToken for the same pair; the token they
\* returned was created after another token had been revoked.
C12_Witness ==
  /\ last.op = "upsertToken"
  /\ last.calls = <<"SecurityToken.findOne", "SecurityToken.save", "SecurityToken.findOne">>
  /\ last.ret._id >= 2
  /\ Cardinality(tokens) < nextToken
  /\ Cardinality(tokens) >= 2

\* C20: every stored signature value is in lower case, and selectPerson(v)
\* called when requireSignature has stored the signature of
\* ('ethereum-address', v) returns the account bound to it, whatever the
\* letter case of v.
C20_LowercaseRoundTrip ==
  [][ /\ \A sg \in signatures' : sg.value = toLowerCase(sg.value)
      /\ \A v \in Addresses :
           ( /\ last'.op = "selectPerson" /\ last'.arg = v
             /\ SignaturesOf(signatures, "ethereum-address", v) # {} )
           => /\ last'.err = ""
              /\ \E sg \in SignaturesOf(signatures, "ethereum-address", v) :
                   last'.ret.user._id = sg.user
    ]_vars

\* C15: a level-1 submission made while a 'created' level-1 request of the
\* account exists leaves that request with the userName, birthDate and
\* avatar of the new payload, validationComment null and isValid false,
\* whatever the five fields held before.
C15_ResubmitLevel1Resets ==
  [][ \A u \in Users :
        ( /\ Called("upsertLevel1Request", u)
          /\ last'.arg.kind = "Level1"
          /\ last'.before # Undefined )
        => /\ last'.err = ""
           /\ Pending(requests', u, "level-1") # Undefined
           /\ Pending(requests', u, "level-1").level1 =
                [userName |-> last'.arg.userName,
                 birthDate |-> last'.arg.birthDate,
                 avatar |-> last'.arg.avatar,
                 validationComment |-> NULL,
                 isValid |-> FALSE]
           /\ CountCreated(requests', u, "level-1") = 1 ]_vars

\* A request reviewed as valid, with a comment, was resubmitted with another
\* payload.
C15_Witness ==
  /\ last.op = "upsertLevel1Request"
  /\ last.err = ""
  /\ last.before # Undefined
  /\ "isValid" \in DOMAIN last.before.level1
  /\ last.before.level1.isValid
  /\ last.before.level1.validationComment # NULL
  /\ last.before.level1.userName # last.arg.userName

\* C16: when two upsertLevel1Request calls for the same account have both
\* run their findOne before either created its document, both create one,
\* and two 'created' level-1 requests of the account are stored once both
\* have finished; likewise two upsertToken calls for the same (account,
\* purpose) that both found no token leave two tokens of the pair.
C16_RacingCallsDuplicate ==
  /\ ( /\ \A p \in Procs :
            /\ procs[p].pc = "done" /\ procs[p].err = ""
            /\ procs[p].op = "upsertLevel1Request"
            /\ procs[p].request = Undefined
       /\ procs["p1"].user = procs["p2"].user )
     => CountCreated(requests, procs["p1"].user, "level-1") = 2
  /\ ( /\ \A p \in Procs :
            /\ procs[p].pc = "done"
            /\ procs[p].op = "upsertToken"
            /\ ~procs[p].found
       /\ procs["p1"].user = procs["p2"].user
       /\ procs["p1"].arg = procs["p2"].arg )
     => /\ Cardinality(TokensOf(tokens, procs["p1"].user, procs["p1"].arg)) = 2
        /\ procs["p1"].ret._id # procs["p2"].ret._id

\* Two submissions of one account that both found no request have finished.
C16_Witness ==
  /\ \A p \in Procs :
       /\ procs[p].pc = "done" /\ procs[p].err = ""
       /\ procs[p].op = "upsertLevel1Request"
       /\ procs[p].request = Undefined
  /\ procs["p1"].user = procs["p2"].user
  /\ CountCreated(requests, procs["p1"].user, "level-1") = 2

\* Two upsertToken calls for one (account, purpose) that both found no token
\* have finished.
C16_WitnessToken ==
  /\ \A p \in Procs :
       procs[p].pc = "done" /\ procs[p].op = "upsertToken" /\ ~procs[p].found
  /\ procs["p1"].user = procs["p2"].user
  /\ procs["p1"].arg = procs["p2"].arg
  /\ Cardinality(TokensOf(tokens, procs["p1"].user, procs["p1"].arg)) = 2

\* C17: a check is consumed once: no two confirmLevel2Request calls return
\* isEmailVerified = true for the same e-mail check, nor isPhoneVerified =
\* true for the same phone check, also when the two calls are in progress at
\* the same time.
C17_ConsumedOnce ==
  \A p, q \in Procs :
    ( /\ p # q
      /\ procs[p].pc = "done" /\ procs[p].op = "confirmLevel2Request" /\ procs[p].err = ""
      /\ procs[q].pc = "done" /\ procs[q].op = "confirmLevel2Request" /\ procs[q].err = "" )
    => /\ ~( /\ procs[p].ret.isEmailVerified /\ procs[q].ret.isEmailVerified
             /\ procs[p].checkEmail = procs[q].checkEmail )
       /\ ~( /\ procs[p].ret.isPhoneVerified /\ procs[q].ret.isPhoneVerified
             /\ procs[p].checkPhone = procs[q].checkPhone )

\* C18: when two requireSignature calls with the same { type, value } have
\* both finished, whatever the order of their storage calls, one signature
\* is stored for the pair and every account has a signature.
C18_SignatureUniqueUnderRace ==
  ( /\ \A p \in Procs : procs[p].pc = "done" /\ procs[p].op = "requireSignature"
    /\ procs["p1"].arg = procs["p2"].arg )
  => /\ Cardinality(SignaturesOf(signatures, procs["p1"].arg.type, procs["p1"].arg.value)) = 1
     /\ \A a \in accounts : \E sg \in signatures : sg.user = a._id

====
